---- MODULE Spec2Model ----
(***************************************************************************)
(* A model of json_parser.cpp: the recursive-descent function parse, its   *)
(* scalar helpers (the number regex, try_parse_int, try_parse_double,      *)
(* unescaped_char) and JSONObject::print.                                  *)
(*                                                                         *)
(* parse is recursive; the model runs it on an explicit call stack, one    *)
(* frame per activation, one action per straight-line piece of the body.   *)
(* Buffers are sequences of one-character strings; buffer offsets are      *)
(* 0-based as in the source (At(j, i) is json[i]).                         *)
(***************************************************************************)
EXTENDS Integers, Sequences, FiniteSets, TLC

VARIABLES
    json,     \* the text buffer handed to parse
    stack,    \* the activations of parse, innermost last
    ret,      \* the pair returned by the activation that returned last
    log,      \* history: per activation, what its object loop has parsed so far
    retlog,   \* history: log of the activation that returned last
    phase,    \* "parse": the first parse; "reparse": the parse of a derived text
    derived,  \* how the second text was derived: "none", "print" or "space"
    orig,     \* the tree the first parse returned (kept for the second parse)
    start0    \* the start offset the top-level call was given

vars == <<json, stack, ret, log, retlog, phase, derived, orig, start0>>

----------------------------------------------------------------------------
(* Bounds of the model. *)

\* Buffers of every length up to MaxLen over Alphabet are parsed.
MaxLen == 4
\* The width of int, scaled down from the platform's 32 bits so that a short
\* literal overflows it; long is IntBits or 2 * IntBits bits wide.
IntBits == 8
\* An array loop that no longer advances is followed for MaxSpin further
\* iterations beyond the number any advancing loop can make.
MaxSpin == 2

----------------------------------------------------------------------------
(* Characters. *)

DQ  == "\""
BSL == "\\"
NUL == "<NUL>"
LF  == "<LF>"
CR  == "<CR>"
TAB == "<TAB>"
VT  == "<VT>"
FF  == "<FF>"
BS  == "<BS>"
BEL == "<BEL>"

Digits == {"0", "1", "2", "3", "4", "5", "6", "7", "8", "9"}
Signs  == {"+", "-"}

DigitVal(c) ==
    CASE c = "0" -> 0 [] c = "1" -> 1 [] c = "2" -> 2 [] c = "3" -> 3
      [] c = "4" -> 4 [] c = "5" -> 5 [] c = "6" -> 6 [] c = "7" -> 7
      [] c = "8" -> 8 [] c = "9" -> 9

DigitChar(n) ==
    CASE n = 0 -> "0" [] n = 1 -> "1" [] n = 2 -> "2" [] n = 3 -> "3"
      [] n = 4 -> "4" [] n = 5 -> "5" [] n = 6 -> "6" [] n = 7 -> "7"
      [] n = 8 -> "8" [] n = 9 -> "9"

isspace(c) == c \in {" ", TAB, LF, VT, FF, CR}
isdigit(c) == c \in Digits

\* json[i]: std::string::operator[] yields '\0' at i = size().
At(j, i) == IF i < Len(j) THEN j[i + 1] ELSE NUL

\* The characters of j at offsets a .. b-1.
Slice(j, a, b) == [k \in 1..(b - a) |-> j[a + k]]

----------------------------------------------------------------------------
(* The value model. *)

NullV       == [type |-> "Null"]
BoolV(b)    == [type |-> "Bool", boolVal |-> b]
IntV(i)     == [type |-> "Int", intVal |-> i]
DoubleV(d)  == [type |-> "Double", doubleVal |-> d]
StringV(s)  == [type |-> "String", strVal |-> s]
ListV(l)    == [type |-> "List", listVal |-> l]
DictV(d)    == [type |-> "Dict", dictVal |-> d]

EmptyDict == [k \in {} |-> NullV]

\* A map insertion that keeps the value a key already has (insert, emplace).
DictInsert(d, key, val) ==
    [k \in (DOMAIN d) \cup {key} |-> IF k \in DOMAIN d THEN d[k] ELSE val]

\* res[key] = val on an unordered_map: inserts the key or overwrites its value.
DictAssign(d, key, val) ==
    [k \in (DOMAIN d) \cup {key} |-> IF k = key THEN val ELSE d[k]]

----------------------------------------------------------------------------
(* Scalar helpers. *)

\* The least offset k >= p at which json[k] is not a digit.
RECURSIVE DigitsEnd(_, _)
DigitsEnd(j, p) == IF isdigit(At(j, p)) THEN DigitsEnd(j, p + 1) ELSE p

\* The end of the match of [+-]?[0-9]+(\.[0-9]*)?([eE][+-]?[0-9]+)? that
\* starts at offset p, or -1 when the expression does not match there.
MatchEndAt(j, p) ==
    LET q == IF At(j, p) \in Signs THEN p + 1 ELSE p
        r == DigitsEnd(j, q)
        f == IF At(j, r) = "." THEN DigitsEnd(j, r + 1) ELSE r
        h == IF At(j, f + 1) \in Signs THEN f + 2 ELSE f + 1
        g == IF At(j, f) \in {"e", "E"} /\ DigitsEnd(j, h) > h
             THEN DigitsEnd(j, h) ELSE f
    IN  IF r = q THEN -1 ELSE g

\* std::regex_search from offset s: the leftmost offset at which the
\* expression matches, or -1.
RECURSIVE SearchFrom(_, _)
SearchFrom(j, p) ==
    IF p >= Len(j) THEN -1
    ELSE IF MatchEndAt(j, p) # -1 THEN p
    ELSE SearchFrom(j, p + 1)

regex_search(j, s) == SearchFrom(j, s)

\* match.str(): the matched text; s is an offset regex_search found.
MatchStr(j, p) == Slice(j, p, MatchEndAt(j, p))

LongMax(lb) == 2^(lb - 1) - 1

\* The magnitude of a digit string, saturated at cap.
RECURSIVE Magnitude(_, _, _)
Magnitude(ds, acc, cap) ==
    IF ds = <<>> THEN acc
    ELSE LET n == acc * 10 + DigitVal(Head(ds))
         IN  Magnitude(Tail(ds), IF n > cap THEN cap ELSE n, cap)

\* strtol(str, &end, 10) for a long of lb bits: the value (clamped to the
\* range of long) and the offset end stops at.
strtol(str, lb) ==
    LET neg  == At(str, 0) = "-"
        q    == IF At(str, 0) \in Signs THEN 1 ELSE 0
        e    == DigitsEnd(str, q)
        mag  == Magnitude(Slice(str, q, e), 0, LongMax(lb) + 1)
        v    == IF neg THEN -mag
                ELSE IF mag > LongMax(lb) THEN LongMax(lb) ELSE mag
    IN  [value |-> v, end |-> e]

\* The conversion of a long to int: its low IntBits bits, two's complement.
ToInt(v) == ((v + 2^(IntBits - 1)) % 2^IntBits) - 2^(IntBits - 1)

\* try_parse_int: value = strtol(...); return *end == '\0'.
try_parse_int(str, lb) ==
    LET r == strtol(str, lb)
    IN  [ok |-> r.end = Len(str), value |-> ToInt(r.value)]

\* A decimal m * 10^e with m not a multiple of 10 (or 0 * 10^0).
RECURSIVE Normal(_, _)
Normal(m, e) ==
    IF m = 0 THEN [mant |-> 0, exp |-> 0]
    ELSE IF m % 10 = 0 THEN Normal(m \div 10, e + 1)
    ELSE [mant |-> m, exp |-> e]

\* strtod on a text of the number grammar: the value as a decimal (binary
\* rounding is left out) and the offset end stops at.
strtod(str) ==
    LET neg   == At(str, 0) = "-"
        q     == IF At(str, 0) \in Signs THEN 1 ELSE 0
        r     == DigitsEnd(str, q)
        f     == IF At(str, r) = "." THEN DigitsEnd(str, r + 1) ELSE r
        fd    == IF f > r THEN Slice(str, r + 1, f) ELSE <<>>
        h     == IF At(str, f + 1) \in Signs THEN f + 2 ELSE f + 1
        hasE  == At(str, f) \in {"e", "E"} /\ DigitsEnd(str, h) > h
        g     == IF hasE THEN DigitsEnd(str, h) ELSE f
        ex    == IF hasE THEN Magnitude(Slice(str, h, g), 0, 1000) ELSE 0
        sex   == IF hasE /\ At(str, f + 1) = "-" THEN -ex ELSE ex
        m     == Magnitude(Slice(str, q, r) \o fd, 0, 1000000000)
        n     == Normal(m, sex - Len(fd))
    IN  [value |-> [neg |-> neg /\ n.mant # 0, mant |-> n.mant, exp |-> n.exp],
         end |-> g]

\* try_parse_double: value = strtod(...); return *end == '\0'.
try_parse_double(str) ==
    LET r == strtod(str)
    IN  [ok |-> r.end = Len(str), value |-> r.value]

unescaped_char(c) ==
    CASE c = "n" -> LF
      [] c = "r" -> CR
      [] c = "0" -> NUL
      [] c = "t" -> TAB
      [] c = "v" -> VT
      [] c = "f" -> FF
      [] c = "b" -> BS
      [] c = "a" -> BEL
      [] OTHER -> c

\* The string loop of parse from offset i with str accumulated so far:
\* [closed, str, next]; closed is FALSE when the buffer ends first.
RECURSIVE StringScan(_, _, _)
StringScan(j, i, str) ==
    IF i >= Len(j) THEN [closed |-> FALSE, str |-> str, next |-> i]
    ELSE IF At(j, i) = BSL
         THEN StringScan(j, i + 2,
                 IF i + 1 < Len(j) THEN Append(str, unescaped_char(At(j, i + 1)))
                 ELSE str)
    ELSE IF At(j, i) = DQ THEN [closed |-> TRUE, str |-> str, next |-> i + 1]
    ELSE StringScan(j, i + 1, Append(str, At(j, i)))

\* The whitespace loop at the head of parse.
RECURSIVE SkipSpace(_, _)
SkipSpace(j, s) ==
    IF s < Len(j) /\ isspace(At(j, s)) THEN SkipSpace(j, s + 1) ELSE s

----------------------------------------------------------------------------
(* Inputs. *)

Alphabet == {"1", "-", ".", "e", DQ, BSL, "a", " ", "[", "]", "{", "}", ",", ":"}

Short == UNION {[1..n -> Alphabet] : n \in 0..MaxLen}

\* Documents longer than MaxLen: those of main and of the specification's
\* examples, and number literals at the edges of int and long.
DocMain ==
    <<"{", DQ, "k", "e", "y", DQ, ":", " ", "4", "2", ",", " ", DQ, "a", "r", "r",
      "a", "y", DQ, ":", " ", "[", "1", ",", " ", "2", ",", " ", "3", "]", ",", " ",
      DQ, "m", "e", "s", "s", "a", "g", "e", DQ, ":", " ", DQ, "h", "e", "l", "l",
      "o", " ", "w", "o", "r", "l", "d", DQ, "}">>
DocDupKey == <<"{", DQ, "a", DQ, ":", "1", ",", DQ, "a", DQ, ":", "2", "}">>
DocObject == <<"{", DQ, "a", DQ, ":", "1", "}">>
DocObjectSpaced == <<"{", " ", DQ, "a", DQ, " ", ":", " ", "1", " ", "}">>
DocArray == <<"[", "1", ",", "2", "]">>
DocArraySpaced == <<"[", " ", "1", " ", ",", " ", "2", " ", "]">>
DocArrayTabbed == <<"[", "1", ",", TAB, "2", LF, "]">>
DocEscape == <<DQ, "a", BSL, "n", "b", DQ>>
DocOpenArray == <<"[", "1", ",", "2">>
DocTrailingComma == <<"[", "1", ",", "2", ",", "]">>
DocTrailingCommaObject == <<"{", DQ, "a", DQ, ":", "1", ",", "}">>
DocBadNumber == <<"0", "1", "x">>
DocIntKey == <<"{", "1", ":", "2", "}">>
DocTwoKeys == <<"{", DQ, "a", DQ, ":", "[", "]", ",", DQ, "b", DQ, ":", "-", "7", "}">>
DocNested == <<"[", "[", "1", "]", ",", "{", DQ, "a", DQ, ":", "{", "}", "}", "]">>
DocIntMax == <<"1", "2", "7">>
DocIntOverflow == <<"1", "2", "8">>
DocIntUnderflow == <<"-", "1", "2", "9">>
DocLongOverflow == <<"9", "9", "9", "9", "9">>
DocFraction == <<"1", ".", "5", "0">>
DocExponent == <<"-", "2", "e", "+", "2">>
DocPlus == <<"+", "7">>
DocSignThenDigit == <<"-", "a", "5">>
DocSignsThenNumber == <<"[", "-", ",", "1", "1", "]">>

Corpus ==
    {DocMain, DocDupKey, DocObject, DocObjectSpaced,
     DocArray, DocArraySpaced, DocArrayTabbed, DocEscape,
     DocOpenArray, DocTrailingComma, DocTrailingCommaObject, DocBadNumber,
     DocIntKey, DocTwoKeys, DocNested, DocIntMax,
     DocIntOverflow, DocIntUnderflow, DocLongOverflow, DocFraction,
     DocExponent, DocPlus, DocSignThenDigit, DocSignsThenNumber}

Inputs == Short \cup Corpus

\* The start offsets tried: every offset of a buffer shorter than MaxLen,
\* offset 0 of the others.
Starts(j) == IF Len(j) < MaxLen THEN 0..Len(j) ELSE {0}

\* The widths long can have beside an int of IntBits bits (ILP32/LLP64, LP64).
LongWidths == {IntBits, 2 * IntBits}

----------------------------------------------------------------------------
(* The activations of parse. *)

NoRet == [val |-> NullV, next |-> -1]

\* History of one activation's object loop: the (key, value) pairs parsed with
\* a String in key position, in text order; whether some key position held
\* another tag; the value of i at the head of the current iteration.
NoLog == [pairs |-> <<>>, skipped |-> FALSE, head |-> -1]

Frame(pc, start, i) ==
    [pc |-> pc, start |-> start, i |-> i, list |-> <<>>, dict |-> EmptyDict,
     keyobj |-> NullV]

Top == stack[Len(stack)]
Pop(s) == SubSeq(s, 1, Len(s) - 1)
SetTop(s, f) == [s EXCEPT ![Len(s)] = f]

Running == stack # <<>>
Done == stack = <<>>

AtEntry == Running /\ Top.pc = "entry"
\* start after the whitespace loop, and the character first.
Skipped == SkipSpace(json, Top.start)
First == At(json, Skipped)

\* return {v, n}: the activation ends and hands the pair to its caller.
Return(v, n) ==
    /\ stack' = Pop(stack)
    /\ ret' = [val |-> v, next |-> n]
    /\ log' = Pop(log)
    /\ retlog' = log[Len(log)]
    /\ UNCHANGED <<json, phase, derived, orig, start0>>

\* parse(json, i) called from the top activation, which waits at pc.
Call(pc, f, i) ==
    /\ stack' = Append(SetTop(stack, [f EXCEPT !.pc = pc]), Frame("entry", i, i))
    /\ log' = Append(log, NoLog)
    /\ ret' = NoRet
    /\ UNCHANGED <<json, retlog, phase, derived, orig, start0>>

\* The top activation goes on as f.
Goto(f) ==
    /\ stack' = SetTop(stack, f)
    /\ UNCHANGED <<json, ret, log, retlog, phase, derived, orig, start0>>

\* Lines 104-111: the buffer is exhausted after the whitespace.
ParseEmpty ==
    /\ AtEntry
    /\ Skipped >= Len(json)
    /\ Return(NullV, Skipped)

NumberBranch == Skipped < Len(json) /\ (isdigit(First) \/ First \in Signs)
NumberFound == NumberBranch /\ regex_search(json, Skipped) # -1

\* The text the number branch converts: match.str().
Converted == MatchStr(json, regex_search(json, Skipped))

\* One of the two conversions reads the whole text.
NumberConverts ==
    /\ NumberFound
    /\ try_parse_int(Converted, IntBits).ok \/ try_parse_double(Converted).ok

\* Lines 116-130: the number branch returns a value.
ParseNumber ==
    /\ AtEntry
    /\ NumberConverts
    /\ \E lb \in LongWidths :
          IF try_parse_int(Converted, lb).ok
          THEN Return(IntV(try_parse_int(Converted, lb).value),
                      Skipped + Len(Converted))
          ELSE Return(DoubleV(try_parse_double(Converted).value),
                      Skipped + Len(Converted))

\* Lines 133-147: the string branch finds the closing quote.
ParseString ==
    /\ AtEntry
    /\ Skipped < Len(json)
    /\ First = DQ
    /\ LET r == StringScan(json, Skipped + 1, <<>>)
       IN  /\ r.closed
           /\ Return(StringV(r.str), r.next)

\* Lines 150-152: the array branch is entered.
EnterArray ==
    /\ AtEntry
    /\ Skipped < Len(json)
    /\ First = "["
    /\ Goto([Top EXCEPT !.pc = "array", !.start = Skipped, !.i = Skipped + 1])

\* Lines 167-169: the object branch is entered.
EnterObject ==
    /\ AtEntry
    /\ Skipped < Len(json)
    /\ First = "{"
    /\ Goto([Top EXCEPT !.pc = "object", !.start = Skipped, !.i = Skipped + 1])

\* Line 191 reached from the dispatch: no branch applies, the number branch
\* finds or converts no literal, or the string is not closed before the
\* buffer ends.
ParseOther ==
    /\ AtEntry
    /\ Skipped < Len(json)
    /\ ~NumberConverts
    /\ First = DQ => ~StringScan(json, Skipped + 1, <<>>).closed
    /\ First \notin {"[", "{"}
    /\ Return(NullV, Skipped)

InArray == Running /\ Top.pc = "array"

\* Lines 153-156: ']' at i ends the array.
ArrayClose ==
    /\ InArray
    /\ Top.i < Len(json)
    /\ At(json, Top.i) = "]"
    /\ Return(ListV(Top.list), Top.i + 1)

\* Line 157: the element is parsed.
ArrayElement ==
    /\ InArray
    /\ Top.i < Len(json)
    /\ At(json, Top.i) # "]"
    /\ Len(Top.list) < Len(json) + MaxSpin
    /\ Call("array_elem", Top, Top.i)

\* The array loop stepping over the character after an element without
\* looking at it (line 160 dropped).
ArrayResumeUnchecked ==
    /\ Running
    /\ Top.pc = "array_elem"
    /\ ret # NoRet
    /\ Goto([Top EXCEPT !.pc = "array",
                        !.list = Append(@, ret.val),
                        !.i = ret.next + 1])

\* Lines 157-162: the element has been parsed.
ArrayResume ==
    /\ Running
    /\ Top.pc = "array_elem"
    /\ ret # NoRet
    /\ LET i == ret.next
       IN  Goto([Top EXCEPT !.pc = "array",
                            !.list = Append(@, ret.val),
                            !.i = IF At(json, i) = "," THEN i + 1 ELSE i])

\* Lines 153, 191: the buffer ends inside the array.
ArrayEnd ==
    /\ InArray
    /\ Top.i >= Len(json)
    /\ Return(NullV, Top.start)

InObject == Running /\ Top.pc = "object"

\* Lines 170-173: '}' at i ends the object.
ObjectClose ==
    /\ InObject
    /\ Top.i < Len(json)
    /\ At(json, Top.i) = "}"
    /\ Return(DictV(Top.dict), Top.i + 1)

\* Line 174: the key is parsed.
ObjectKey ==
    /\ InObject
    /\ Top.i < Len(json)
    /\ At(json, Top.i) # "}"
    /\ stack' = Append(SetTop(stack, [Top EXCEPT !.pc = "object_key"]),
                       Frame("entry", Top.i, Top.i))
    /\ log' = Append([log EXCEPT ![Len(log)].head = Top.i], NoLog)
    /\ ret' = NoRet
    /\ UNCHANGED <<json, retlog, phase, derived, orig, start0>>

\* Lines 174-179: the key has been parsed, the value is parsed.
ObjectValue ==
    /\ Running
    /\ Top.pc = "object_key"
    /\ ret # NoRet
    /\ LET i == IF At(json, ret.next) = ":" THEN ret.next + 1 ELSE ret.next
       IN  Call("object_val", [Top EXCEPT !.keyobj = ret.val, !.i = i], i)

\* Lines 179-186: the value has been parsed.
ObjectResume ==
    /\ Running
    /\ Top.pc = "object_val"
    /\ ret # NoRet
    /\ LET i == ret.next
           f == [Top EXCEPT
                   !.pc = "object",
                   !.dict = IF Top.keyobj.type = "String"
                            THEN DictAssign(@, Top.keyobj.strVal, ret.val)
                            ELSE @,
                   !.i = IF At(json, i) = "," THEN i + 1 ELSE i]
       IN  /\ stack' = SetTop(stack, f)
           /\ log' = [log EXCEPT ![Len(log)] =
                         IF Top.keyobj.type = "String"
                         THEN [@ EXCEPT !.pairs = Append(@, [key |-> Top.keyobj.strVal,
                                                             val |-> ret.val])]
                         ELSE [@ EXCEPT !.skipped = TRUE]]
           /\ UNCHANGED <<json, ret, retlog, phase, derived, orig, start0>>

\* Lines 170, 191: the buffer ends inside the object.
ObjectEnd ==
    /\ InObject
    /\ Top.i >= Len(json)
    /\ Return(NullV, Top.start)

Parse ==
    \/ ParseEmpty \/ ParseNumber \/ ParseString \/ EnterArray \/ EnterObject
    \/ ParseOther
    \/ ArrayClose \/ ArrayElement \/ ArrayResume \/ ArrayEnd
    \/ ObjectClose \/ ObjectKey \/ ObjectValue \/ ObjectResume \/ ObjectEnd

----------------------------------------------------------------------------
(* JSONObject::print. *)

\* operator<< on an int: its decimal text.
RECURSIVE NatText(_)
NatText(n) ==
    IF n < 10 THEN <<DigitChar(n)>>
    ELSE Append(NatText(n \div 10), DigitChar(n % 10))

IntText(n) == IF n < 0 THEN <<"-">> \o NatText(-n) ELSE NatText(n)

\* The orders in which an unordered_map may iterate over the keys ks: the
\* order is left to the implementation.
Orders(ks) ==
    {o \in [1..Cardinality(ks) -> ks] :
        \A a, b \in 1..Cardinality(ks) : a # b => o[a] # o[b]}

\* The texts print can write for v (one per iteration order of its Dicts).
\* The Double case (operator<< on a double) is not modelled.
RECURSIVE print(_), PrintList(_), PrintDict(_, _)
print(v) ==
    CASE v.type = "Null" -> {<<"n", "u", "l", "l">>}
      [] v.type = "Bool" -> {IF v.boolVal THEN <<"t", "r", "u", "e">>
                             ELSE <<"f", "a", "l", "s", "e">>}
      [] v.type = "Int" -> {IntText(v.intVal)}
      [] v.type = "String" -> {<<DQ>> \o v.strVal \o <<DQ>>}
      [] v.type = "List" -> {<<"[">> \o b \o <<"]">> : b \in PrintList(v.listVal)}
      [] v.type = "Dict" ->
           {<<"{">> \o b \o <<"}">> :
               b \in UNION {PrintDict(v.dictVal, o) : o \in Orders(DOMAIN v.dictVal)}}

\* Lines 54-57: the elements, ", " after each but the last.
PrintList(l) ==
    IF l = <<>> THEN {<<>>}
    ELSE IF Len(l) = 1 THEN print(l[1])
    ELSE {a \o <<",", " ">> \o b : a \in print(Head(l)), b \in PrintList(Tail(l))}

\* Lines 62-66: "key": value for the keys in iteration order o.
PrintDict(d, o) ==
    IF o = <<>> THEN {<<>>}
    ELSE LET items == {<<DQ>> \o Head(o) \o <<DQ, ":", " ">> \o a : a \in print(d[Head(o)])}
         IN  IF Len(o) = 1 THEN items
             ELSE {a \o <<",", " ">> \o b : a \in items, b \in PrintDict(d, Tail(o))}

----------------------------------------------------------------------------
(* Texts derived from a parsed document, parsed in turn. *)

\* Characters print writes unescaped that the string branch reads otherwise.
NeedsEscape(c) == c \in {DQ, BSL, NUL, LF, CR, TAB, VT, FF, BS, BEL}

PlainText(str) == \A k \in 1..Len(str) : ~NeedsEscape(str[k])

\* v holds no Double and no String (value or key) that needs escaping.
RECURSIVE Plain(_)
Plain(v) ==
    CASE v.type = "Double" -> FALSE
      [] v.type = "String" -> PlainText(v.strVal)
      [] v.type = "List" -> \A k \in 1..Len(v.listVal) : Plain(v.listVal[k])
      [] v.type = "Dict" ->
           \A k \in DOMAIN v.dictVal : PlainText(k) /\ Plain(v.dictVal[k])
      [] OTHER -> TRUE

\* Whether offset p of j lies inside a string literal (after its opening
\* quote, up to and including its closing quote); k scans from offset 0.
RECURSIVE InsideString(_, _, _, _)
InsideString(j, k, p, inside) ==
    IF k >= p THEN inside \/ k > p
    ELSE IF inside /\ At(j, k) = BSL THEN InsideString(j, k + 2, p, TRUE)
    ELSE IF At(j, k) = DQ THEN InsideString(j, k + 1, p, ~inside)
    ELSE InsideString(j, k + 1, p, inside)

\* A token starts at offset p: a delimiter, a bracket or an opening quote.
TokenStart(j, p) ==
    /\ At(j, p) \in {",", ":", "]", "}", "[", "{", DQ}
    /\ ~InsideString(j, 0, p, FALSE)

\* j with the character c inserted before offset p.
InsertAt(j, p, c) == Slice(j, 0, p) \o <<c>> \o Slice(j, p, Len(j))

Reparse(text, how) ==
    /\ json' = text
    /\ stack' = <<Frame("entry", 0, 0)>>
    /\ ret' = NoRet
    /\ log' = <<NoLog>>
    /\ retlog' = NoLog
    /\ phase' = "reparse"
    /\ derived' = how
    /\ orig' = ret.val
    /\ start0' = 0

\* The first parse has read the whole buffer from offset 0.
Parsed == phase = "parse" /\ Done /\ start0 = 0 /\ ret.next = Len(json)

\* Lines 198-200 and a second parse: the tree is printed, the text is parsed.
Render ==
    /\ Parsed
    /\ Plain(ret.val)
    /\ \E text \in print(ret.val) : Reparse(text, "print")

\* The document is parsed again with one whitespace character inserted
\* between two of its tokens.
InsertSpace ==
    /\ Parsed
    /\ \E p \in 1..(Len(json) - 1), c \in {" ", TAB, LF, CR} :
          /\ TokenStart(json, p)
          /\ Reparse(InsertAt(json, p, c), "space")

Reparsed(how) == phase = "reparse" /\ derived = how /\ Done

----------------------------------------------------------------------------

Init ==
    /\ json \in Inputs
    /\ start0 \in Starts(json)
    /\ stack = <<Frame("entry", start0, start0)>>
    /\ ret = NoRet
    /\ log = <<NoLog>>
    /\ retlog = NoLog
    /\ phase = "parse"
    /\ derived = "none"
    /\ orig = NullV

Next == Parse \/ Render \/ InsertSpace

Spec == Init /\ [][Next]_vars

----------------------------------------------------------------------------
(* Properties. *)

\* The step is the return of the number branch (lines 124, 127).
NumberReturns == AtEntry /\ NumberConverts /\ ret' # NoRet

\* The step ends an iteration of the array loop (line 162 is passed).
ArrayIterates == Running /\ Top.pc = "array_elem" /\ ret # NoRet /\ stack' # stack

\* The step ends an iteration of the object loop (line 186 is passed).
ObjectIterates == Running /\ Top.pc = "object_val" /\ ret # NoRet /\ stack' # stack

\* Over a step that ends an iteration of a loop, i has grown since the head
\* of that iteration.
IterationAdvances ==
    /\ ArrayIterates => stack'[Len(stack)].i > Top.i
    /\ ObjectIterates => stack'[Len(stack)].i > log[Len(log)].head

\* C1: parse returns after finitely many steps: every iteration of the array
\* loop and of the object loop advances the cursor i, also when the nested
\* parse hands back Null at the cursor it was given.
LoopsAdvance == [][IterationAdvances]_vars

\* C2: parse returns Null only when the buffer is exhausted after the
\* whitespace; a character that begins no value, or a string, array or object
\* left open at the end of the buffer, does not come back as Null.
NullOnlyAtEnd == (ret # NoRet /\ ret.val = NullV) => ret.next >= Len(json)

\* C3: a document parsed again with one whitespace character inserted between
\* two of its tokens gives the same tree.
SpaceInsensitive == Reparsed("space") => ret.val = orig

\* Whether a literal has neither fraction nor exponent, and its value.
IsIntegerText(str) == \A k \in 1..Len(str) : str[k] \notin {".", "e", "E"}
MathValue(str) ==
    LET q == IF At(str, 0) \in Signs THEN 1 ELSE 0
        m == Magnitude(Slice(str, q, DigitsEnd(str, q)), 0, 1000000000)
    IN  IF At(str, 0) = "-" THEN -m ELSE m
InIntRange(n) == -(2^(IntBits - 1)) <= n /\ n <= 2^(IntBits - 1) - 1

\* C4: the number branch returns Int exactly for a literal without fraction
\* and exponent whose value fits int, with that value as payload, and Double
\* for every other literal; never an Int with a wrapped or clamped value.
NumberTagPolicy ==
    [][NumberReturns =>
         /\ ret'.val.type \in {"Int", "Double"}
         /\ ret'.val.type = "Int" <=>
               (IsIntegerText(Converted) /\ InIntRange(MathValue(Converted)))
         /\ ret'.val.type = "Int" => ret'.val.intVal = MathValue(Converted)]_vars

\* The mapping a sequence of (key, value) pairs stands for when the last
\* pair of a key decides its value.
LastWins(pairs) ==
    [k \in {pairs[n].key : n \in 1..Len(pairs)} |->
        LET last == CHOOSE n \in 1..Len(pairs) :
                       /\ pairs[n].key = k
                       /\ \A m \in (n + 1)..Len(pairs) : pairs[m].key # k
        IN  pairs[last].val]

\* C5: a returned Dict holds each string key of the text once, mapped to the
\* value of the key's last occurrence.
LastKeyWins ==
    (ret # NoRet /\ ret.val.type = "Dict") => ret.val.dictVal = LastWins(retlog.pairs)

\* A Dict was returned for an object in which a key occurs twice with
\* different values.
DuplicateKeyParsed ==
    /\ ret # NoRet
    /\ ret.val.type = "Dict"
    /\ \E a, b \in 1..Len(retlog.pairs) :
          /\ a < b
          /\ retlog.pairs[a].key = retlog.pairs[b].key
          /\ retlog.pairs[a].val # retlog.pairs[b].val

\* The loop of the top activation has just consumed a ',' (lines 160-161,
\* 184-185) and the closing delimiter close is what follows.
ClosesAfterComma(pc, close) ==
    /\ Running
    /\ Top.pc = pc
    /\ ret # NoRet
    /\ Top.i = ret.next + 1
    /\ Top.i < Len(json)
    /\ At(json, Top.i) = close

\* C6: a trailing comma is rejected: when ']' (or '}') follows a consumed
\* ',', parse does not return the List (or Dict) accumulated so far.
TrailingCommaRejected ==
    [][/\ ClosesAfterComma("array", "]") => ~(Len(stack') < Len(stack) /\ ret'.val.type = "List")
       /\ ClosesAfterComma("object", "}") => ~(Len(stack') < Len(stack) /\ ret'.val.type = "Dict")]_vars

\* C7: a Dict is never returned for an object in which a key position held a
\* value of another tag than String.
KeysAreStrings == (ret # NoRet /\ ret.val.type = "Dict") => ~retlog.skipped

\* C8: the text print writes for a parsed tree without Double and without
\* String that needs escaping parses, in finitely many steps, to that tree.
RoundTrip ==
    /\ [](Reparsed("print") => ret.val = orig)
    /\ [][(phase = "reparse" /\ derived = "print") => IterationAdvances]_vars

\* The length of the longest text at offset s of j that the number grammar
\* sign? digits ('.' digits*)? ([eE] sign? digits)? matches, 0 when none is.
IsNumberText(t) == t # <<>> /\ MatchEndAt(t, 0) = Len(t)
LongestNumberAt(j, s) ==
    LET lens == {n \in 1..(Len(j) - s) : IsNumberText(Slice(j, s, s + n))}
    IN  IF lens = {} THEN 0 ELSE CHOOSE n \in lens : \A m \in lens : m <= n

\* C9: the text the number branch converts is the buffer from the cursor to
\* the returned cursor, and it is the longest number literal at the cursor.
NumberAtCursor ==
    [][NumberReturns =>
         /\ Converted = Slice(json, Skipped, ret'.next)
         /\ ret'.next - Skipped = LongestNumberAt(json, Skipped)]_vars

\* Every cursor of every activation, and the cursor returned last, lies in
\* the buffer, so json[i] is read at offsets up to size() only.
CursorsInBuffer ==
    /\ \A k \in 1..Len(stack) :
          /\ stack[k].start <= stack[k].i
          /\ stack[k].i <= Len(json)
    /\ ret # NoRet => ret.next <= Len(json)

\* Over a return, the cursor handed back is not before the start the
\* activation was given, and is past the whitespace-skipped start when the
\* value is not Null.
ReturnAdvances ==
    (Running /\ Len(stack') < Len(stack)) =>
        /\ ret'.next >= Top.start
        /\ ret'.val # NullV => ret'.next > SkipSpace(json, Top.start)

\* C10: for every call of parse that returns, start <= next_cursor <=
\* length(buffer), next_cursor is past the whitespace-skipped start unless
\* the value is Null, and the loops read no offset beyond length(buffer).
CursorInvariant == []CursorsInBuffer /\ [][ReturnAdvances]_vars

\* A nested call made at an offset holding whitespace has returned a value
\* to an array loop that went on to return its List.
NestedValueReturned ==
    /\ Done
    /\ ret.val.type = "List"
    /\ Len(ret.val.listVal) > 0
    /\ \E k \in 1..Len(json) : isspace(json[k])

====
